---- MODULE Spec2Model ----
(***************************************************************************)
(* RCA closed-loop dashboard (src/app.py): the DOCX section extractor and  *)
(* the handlers that write the tables rcas, actions and evidence.          *)
(* A text is a sequence of characters; a character is a one-letter string  *)
(* or one of the named characters below.  Python indices are 0-based, the  *)
(* sequences here are 1-based: item k of the code is items[k + 1].         *)
(***************************************************************************)
EXTENDS Integers, Sequences, FiniteSets, TLC

VARIABLES doc, fname, parsed, call

\* the server and its sessions: the configured password, each session's
\* st.session_state.upload_ok and the password that set it, the three tables in insertion order, the date
\* of date.today(), and what the last script run left on its page
VARIABLES UPLOAD_PASSWORD, upload_ok, unlocked_with, rcas, actions, evidence, today, msg, sims

\* the table incidents, for each session the upload its running script has
\* committed to rcas but not yet to actions, and the session whose script run
\* wrote to a table last
VARIABLES incidents, pending, writer

appvars == <<UPLOAD_PASSWORD, upload_ok, unlocked_with, rcas, actions, evidence, today, msg,
             sims, incidents, pending, writer>>

vars == <<doc, fname, parsed, call, UPLOAD_PASSWORD, upload_ok, unlocked_with, rcas, actions,
          evidence, today, msg, sims, incidents, pending, writer>>

(* ---------------------------- characters ------------------------------ *)

SP == " "
TAB == "\t"
LF == "\n"
CR == "\r"
\* U+00A0, the no-break space Word writes into run text
NBSP == "NBSP"
\* U+2022, the bullet of line 244
BULLET == "BULLET"

\* the characters str.strip() removes (str.isspace), as far as they occur here
WhiteSpace == {SP, TAB, LF, CR, NBSP}

\* the argument of ln.strip(" \t•-")
BulletChars == {SP, TAB, BULLET, "-"}

\* the class [\n\r] of the regular expression
LineBreaks == {LF, CR}

Uppers ==
  <<"A","B","C","D","E","F","G","H","I","J","K","L","M","N","O","P","Q","R","S","T","U","V","W","X","Y","Z">>

Lowers ==
  <<"a","b","c","d","e","f","g","h","i","j","k","l","m","n","o","p","q","r","s","t","u","v","w","x","y","z">>

\* the lower-case letter of each upper-case letter
LowerOf ==
  [u \in {Uppers[n] : n \in 1..Len(Uppers)} |->
     Lowers[CHOOSE n \in 1..Len(Uppers) : Uppers[n] = u]]

\* str.lower() on one character
LowerChar(c) == IF c \in DOMAIN LowerOf THEN LowerOf[c] ELSE c

\* str.lower()
lower(s) == [n \in 1..Len(s) |-> LowerChar(s[n])]

RECURSIVE FirstKept(_, _, _)
\* the first position from n on whose character is not in chars, or Len(s) + 1
FirstKept(s, chars, n) ==
  IF n > Len(s) \/ s[n] \notin chars THEN n ELSE FirstKept(s, chars, n + 1)

RECURSIVE LastKept(_, _, _)
\* the last position up to n whose character is not in chars, or 0
LastKept(s, chars, n) ==
  IF n < 1 \/ s[n] \notin chars THEN n ELSE LastKept(s, chars, n - 1)

\* str.strip(chars): drop the characters of chars from both ends
strip_chars(s, chars) ==
  SubSeq(s, FirstKept(s, chars, 1), LastKept(s, chars, Len(s)))

\* str.strip()
strip(s) == strip_chars(s, WhiteSpace)

\* str.startswith
startswith(s, p) == Len(s) >= Len(p) /\ SubSeq(s, 1, Len(p)) = p

RECURSIVE join_nl(_)
\* "\n".join(list)
join_nl(list) ==
  IF Len(list) = 0 THEN <<>>
  ELSE IF Len(list) = 1 THEN list[1]
  ELSE list[1] \o <<LF>> \o join_nl(Tail(list))

RECURSIVE SkipBreaks(_, _)
\* the end of a maximal run [\n\r]+ that starts at n
SkipBreaks(s, n) ==
  IF n <= Len(s) /\ s[n] \in LineBreaks THEN SkipBreaks(s, n + 1) ELSE n

RECURSIVE SplitFrom(_, _, _)
SplitFrom(s, n, cur) ==
  IF n > Len(s) THEN <<cur>>
  ELSE IF s[n] \in LineBreaks THEN <<cur>> \o SplitFrom(s, SkipBreaks(s, n), <<>>)
  ELSE SplitFrom(s, n + 1, Append(cur, s[n]))

\* re.split(r"[\n\r]+", s): the texts between the runs of line breaks, the
\* empty text before a leading run and after a trailing run included
re_split(s) == SplitFrom(s, 1, <<>>)

(* --------------------------- the catalogue ---------------------------- *)

HEADINGS ==
  << <<"I","n","c","i","d","e","n","t"," ","D","a","t","e">>,
     <<"I","n","c","i","d","e","n","t"," ","/"," ","P","r","o","b","l","e","m">>,
     <<"S","e","r","v","i","c","e","s"," ","A","f","f","e","c","t","e","d">>,
     <<"C","u","s","t","o","m","e","r"," ","I","m","p","a","c","t">>,
     <<"D","e","s","c","r","i","p","t","i","o","n">>,
     <<"R","o","o","t"," ","C","a","u","s","e">>,
     <<"W","o","r","k","a","r","o","u","n","d">>,
     <<"W","o","r","k","a","r","o","u","n","d"," ","(","A","c","t","i","o","n","s"," ","t","o"," ","r","e","s","t","o","r","e"," ","s","e","r","v","i","c","e",")">>,
     <<"L","o","n","g"," ","T","e","r","m"," ","S","o","l","u","t","i","o","n","s">>,
     <<"L","o","n","g"," ","T","e","r","m"," ","S","o","l","u","t","i","o","n","s"," ","(","A","c","t","i","o","n","s"," ","t","o"," ","p","r","e","v","e","n","t"," ","r","e","c","u","r","r","e","n","c","e",")">>,
     <<"C","o","n","t","r","i","b","u","t","i","n","g"," ","P","r","o","c","e","s","s"," ","F","a","c","t","o","r","s">>,
     <<"S","t","a","g","e">> >>

\* the keys parse_rca_docx looks up
KeyIncidentDate == HEADINGS[1]

KeyServicesAffected == HEADINGS[3]

KeyRootCause == HEADINGS[6]

KeyWorkaround == HEADINGS[7]

KeyLongTerm == HEADINGS[9]

(* ------------------------- program constants -------------------------- *)

\* range(i + 1, min(i + 12, len(items)))
LookAhead == 12

\* items[:25]
TitleScan == 25

\* len(t) > 8
TitleMin == 8

\* len(t) < 140
TitleMax == 140

\* len(ln) > 8
ActionMin == 8

\* find_heading's None
None == -1

(* ----------------------- the block linearizer ------------------------- *)

\* a body child: a paragraph (CT_P) with its text, or a table (CT_Tbl) with
\* its rows, each a sequence of cells, each a sequence of paragraph texts
Para(t) == [kind |-> "p", text |-> t, rows |-> <<>>]

Tbl(rows) == [kind |-> "tbl", text |-> <<>>, rows |-> rows]

\* t = (p.text or "").strip(); if t: items.append(t)
\* the append without the test "if t": a blank paragraph leaves an empty fragment
EmitTextKeepBlank(t) == <<strip(t)>>

EmitText(t) == IF strip(t) # <<>> THEN <<strip(t)>> ELSE <<>>

RECURSIVE CellItems(_)
\* for p in cell.paragraphs
CellItems(cell) ==
  IF cell = <<>> THEN <<>> ELSE EmitText(Head(cell)) \o CellItems(Tail(cell))

RECURSIVE RowItems(_)
\* for cell in row.cells
RowItems(row) ==
  IF row = <<>> THEN <<>> ELSE CellItems(Head(row)) \o RowItems(Tail(row))

RECURSIVE TableItems(_)
\* for row in block.rows
TableItems(rows) ==
  IF rows = <<>> THEN <<>> ELSE RowItems(Head(rows)) \o TableItems(Tail(rows))

RECURSIVE doc_text_in_order(_)
doc_text_in_order(d) ==
  IF d = <<>> THEN <<>>
  ELSE (IF Head(d).kind = "p" THEN EmitText(Head(d).text) ELSE TableItems(Head(d).rows))
       \o doc_text_in_order(Tail(d))

(* ------------------------ the section extractor ----------------------- *)

RECURSIVE AnyHeading(_, _, _)
\* any(tl == h.lower() or tl.startswith(h.lower()) for h in cat), from entry n
AnyHeading(cat, tl, n) ==
  IF n > Len(cat) THEN FALSE
  ELSE IF tl = lower(cat[n]) \/ startswith(tl, lower(cat[n])) THEN TRUE
  ELSE AnyHeading(cat, tl, n + 1)

\* is_heading that forgets to lower-case the fragment
is_heading_case_sensitive(cat, t) == AnyHeading(cat, strip(t), 1)

\* is_heading with the catalogue it reads made explicit
is_heading_in(cat, t) == AnyHeading(cat, lower(strip(t)), 1)

is_heading(t) == is_heading_in(HEADINGS, t)

RECURSIVE FindLastFrom(_, _, _)
\* the loop of find_heading without its return: the last match wins
FindLastFrom(items, kl, i) ==
  IF i >= Len(items) THEN None
  ELSE LET tl == lower(strip(items[i + 1]))
           rest == FindLastFrom(items, kl, i + 1)
       IN IF rest # None THEN rest
          ELSE IF tl = kl \/ startswith(tl, kl) THEN i ELSE None

RECURSIVE FindFrom(_, _, _)
\* for i, t in enumerate(items): ... return i;  return None
FindFrom(items, kl, i) ==
  IF i >= Len(items) THEN None
  ELSE LET tl == lower(strip(items[i + 1]))
       IN IF tl = kl \/ startswith(tl, kl) THEN i ELSE FindFrom(items, kl, i + 1)

\* find_heading that answers index 0 for a heading that is not there
find_heading_default_first(items, key) ==
  IF FindFrom(items, lower(key), 0) = None THEN 0 ELSE FindFrom(items, lower(key), 0)

find_heading(items, key) == FindFrom(items, lower(key), 0)

RECURSIVE NextHeading(_, _, _)
\* j = len(items); for k in range(i + 1, len(items)): if is_heading: j = k; break
NextHeading(cat, items, k) ==
  IF k >= Len(items) THEN Len(items)
  ELSE IF is_heading_in(cat, items[k + 1]) THEN k
  ELSE NextHeading(cat, items, k + 1)

\* section that slices from the heading itself: items[i : j]
section_from_heading(cat, items, key) ==
  LET i == find_heading(items, key)
  IN IF i = None THEN <<>>
     ELSE LET j == NextHeading(cat, items, i + 1)
          IN strip(join_nl(SubSeq(items, i + 1, j)))

section_in(cat, items, key) ==
  LET i == find_heading(items, key)
  IN IF i = None THEN <<>>
     ELSE LET j == NextHeading(cat, items, i + 1)
          IN strip(join_nl(SubSeq(items, i + 2, j)))

section(items, key) == section_in(HEADINGS, items, key)

MinOf(a, b) == IF a <= b THEN a ELSE b

\* the stop of the range of value_after
ScanStop(i, n) == MinOf(i + LookAhead, n)

RECURSIVE ScanValue(_, _, _, _)
\* for k in range(i + 1, stop): if items[k].strip() and not is_heading(items[k])
ScanValue(cat, items, k, stop) ==
  IF k >= stop THEN <<>>
  ELSE IF strip(items[k + 1]) # <<>> /\ ~is_heading_in(cat, items[k + 1])
       THEN strip(items[k + 1])
  ELSE ScanValue(cat, items, k + 1, stop)

value_after_in(cat, items, key) ==
  LET i == find_heading(items, key)
  IN IF i = None THEN <<>>
     ELSE ScanValue(cat, items, i + 1, ScanStop(i, Len(items)))

value_after(items, key) == value_after_in(HEADINGS, items, key)

\* the title test with len(t) >= 8
TitleCandidateInclusive(t) == Len(t) >= TitleMin /\ Len(t) < TitleMax

\* the test of the title loop
TitleCandidate(t) == Len(t) > TitleMin /\ Len(t) < TitleMax

RECURSIVE TitleFromNoFallback(_, _, _)
\* the title loop without the initial title = uploaded_file.name
TitleFromNoFallback(items, n, name) ==
  IF n > Len(items) \/ n > TitleScan THEN <<>>
  ELSE IF TitleCandidate(items[n]) THEN strip(items[n])
  ELSE TitleFromNoFallback(items, n + 1, name)

RECURSIVE TitleFrom(_, _, _)
\* title = uploaded_file.name; for t in items[:25]: if ...: title = t.strip(); break
TitleFrom(items, n, name) ==
  IF n > Len(items) \/ n > TitleScan THEN name
  ELSE IF TitleCandidate(items[n]) THEN strip(items[n])
  ELSE TitleFrom(items, n + 1, name)

\* ln.strip(): the bullet markers stay
StripLineWhitespace(ln) == strip(ln)

\* ln.strip(" \t•-")
StripLine(ln) == strip_chars(ln, BulletChars)

\* raw_lines = [ln.strip(" \t•-") for ln in re.split(...) if ln.strip()]
raw_lines(long_term) ==
  LET pieces == SelectSeq(re_split(long_term), LAMBDA ln : strip(ln) # <<>>)
  IN [n \in 1..Len(pieces) |-> StripLine(pieces[n])]

\* the length test of line 245
KeepLine(ln) == Len(ln) > ActionMin

\* actions = [ln for ln in raw_lines if len(ln) > 8]
action_items(long_term) == SelectSeq(raw_lines(long_term), KeepLine)

parse_in(cat, d, name) ==
  LET items == doc_text_in_order(d)
      long_term == section_in(cat, items, KeyLongTerm)
  IN [title |-> TitleFrom(items, 1, name),
      incident_date |-> value_after_in(cat, items, KeyIncidentDate),
      services_affected |-> value_after_in(cat, items, KeyServicesAffected),
      root_cause |-> section_in(cat, items, KeyRootCause),
      workaround |-> section_in(cat, items, KeyWorkaround),
      long_term_solutions |-> long_term,
      actions |-> action_items(long_term),
      full_text |-> join_nl(items)]

parse_rca_docx(d, name) == parse_in(HEADINGS, d, name)

(* ----------------------------- the inputs ----------------------------- *)

\* the most body blocks of a generated document
MaxBlocks == 3

\* the most paragraphs under the long-term-solutions heading of a generated document
MaxLines == 2

\* the most headings between a heading and the value that follows them
MaxPad == 12

\* the most fragments in front of a title candidate
MaxTitlePad == 26

Rep(x, n) == [k \in 1..n |-> x]

SeqsUpTo(S, n) == UNION {[1..m -> S] : m \in 0..n}

Paras(ts) == [n \in 1..Len(ts) |-> Para(ts[n])]

TxtServicesLower == <<" "," ","s","e","r","v","i","c","e","s"," ","a","f","f","e","c","t","e","d"," ">>

TxtRootUpper == <<"R","O","O","T"," ","C","A","U","S","E">>

TxtStageTwo == <<"S","t","a","g","e"," ","t","w","o">>

TxtDate == <<"0","9","/","0","2","/","2","0","2","6">>

TxtBlank == <<" ",TAB>>

TxtStag == <<"S","t","a","g">>

TxtMobile == <<"M","o","b","i","l","e"," ","d","a","t","a">>

TxtEight == <<"a","b","c","d","e","f","g","h">>

TxtNine == <<"a","b","c","d","e","f","g","h","i">>

TxtLineOne == <<"L","i","n","e"," ","o","n","e",".">>

TxtLineTwo == <<"L","i","n","e"," ","t","w","o",".">>

TxtFix == <<"F","i","x"," ","a","p","p","l","i","e","d",".">>

TxtDots == <<".",".",".">>

TxtDoX == <<"D","o"," ","X",".">>

TxtCreate == <<"C","r","e","a","t","e"," ","a","n"," ","i","n","t","e","r","n","a","l"," ","t","i","c","k","e","t"," ","t","o"," ","t","r","a","c","k"," ","c","l","o","s","u","r","e",".">>

\* the narrative of the specification's scenario C
TxtScenarioC == <<"-"," ","D","o"," ","X",".",LF,"-"," ","Y",LF,LF,"-"," ","C","r","e","a","t","e"," ","a","n"," ","i","n","t","e","r","n","a","l"," ","t","i","c","k","e","t"," ","t","o"," ","t","r","a","c","k"," ","c","l","o","s","u","r","e",".">>

LineDoX == <<"-"," ","D","o"," ","X",".">>

LineRotate == <<BULLET," ","R","o","t","a","t","e"," ","t","h","e"," ","k","e","y","s">>

LineNbsp == <<"-",NBSP,"a","b","c","d","e","f","g","h">>

LinePin == <<"P","i","n"," ","v","e","r","s","i","o","n","s"," ","-">>

LineMulti == <<"F","i","x"," ","A",CR,LF,LF,"-"," ","R","e","s","t","a","r","t"," ","n","o","d","e">>

LineStage == <<"S","t","a","g","e"," ","g","a","t","e">>

LineHollow == <<"-",NBSP,NBSP,NBSP,NBSP,NBSP,NBSP,NBSP,NBSP,NBSP,"-">>

FileName == <<"r","c","a",".","d","o","c","x">>

\* texts of TitleMax and of TitleMax - 1 characters
TxtTooLong == Rep("x", TitleMax)

TxtLongest == Rep("x", TitleMax - 1)

\* paragraph texts as Word stores them: untrimmed, blank, in any case
HeadPool ==
  {HEADINGS[1], TxtServicesLower, TxtRootUpper, HEADINGS[8], TxtStageTwo, TxtDate,
   TxtStag}

LinePool ==
  {LineDoX, LineRotate, LineNbsp, LinePin, LineMulti, LineStage, LineHollow, TxtBlank}

HeadDocs == {Paras(ts) : ts \in SeqsUpTo(HeadPool, MaxBlocks)}

NarrativeDocs == {<<Para(HEADINGS[10])>> \o Paras(ts) : ts \in SeqsUpTo(LinePool, MaxLines)}

\* a heading, n further headings, then a value
LookDocs ==
  {<<Para(h)>> \o Rep(Para(HEADINGS[12]), n) \o <<Para(TxtDate)>> :
     n \in 0..MaxPad, h \in {HEADINGS[1], HEADINGS[3]}}

\* n fragments that are no title candidate (too short, or too long when
\* first), then one that is
TitleDocs ==
  {f \o Rep(Para(TxtEight), n) \o <<Para(c)>> :
     n \in 0..MaxTitlePad, f \in {<<>>, <<Para(TxtTooLong)>>}, c \in {TxtNine, TxtLongest}}

\* a two-column table with the headings in the first row, a table with the
\* heading and its value in one row, several paragraphs in a cell, empty cells
TableDocs ==
  { <<Tbl(<< << <<HEADINGS[1]>>, <<HEADINGS[3]>> >>,
             << <<TxtDate>>, <<TxtMobile>> >> >>)>>,
    <<Para(TxtNine),
      Tbl(<< << <<HEADINGS[6]>>, <<TxtLineOne, TxtBlank, TxtLineTwo>> >>,
             << <<>>, <<TxtBlank>> >>,
             << <<HEADINGS[7]>>, <<TxtFix>> >> >>)>>,
    <<Tbl(<< << <<HEADINGS[9], LineRotate>> >> >>), Para(LinePin), Tbl(<<>>)>>,
    <<Para(TxtBlank), Tbl(<< << <<>>, <<TxtBlank, <<>>>> >> >>)>> }

\* the fragment sequences of the specification's scenarios A, B and C
ScenarioDocs ==
  { Paras(<<HEADINGS[6], TxtLineOne, TxtLineTwo, HEADINGS[7], TxtFix>>),
    Paras(<<HEADINGS[1], TxtDate, HEADINGS[6], TxtDots>>),
    Paras(<<HEADINGS[9], TxtScenarioC>>) }

Docs == HeadDocs \cup NarrativeDocs \cup LookDocs \cup TitleDocs \cup TableDocs \cup ScenarioDocs

\* the keys the helpers are called with
Keys == {HEADINGS[n] : n \in 1..Len(HEADINGS)}

(* --------------------------- the state machine ------------------------ *)

\* the browser sessions, each with its own st.session_state
Sessions == {"s1", "s2"}

\* SQL NULL (Python None) in a text column; in a date column it is None
Null == <<"NULL">>

\* a page without a warning, an error or a traceback on it
NoMsg == "none"

\* a page without a table of similar RCAs
NoSims == [query |-> <<>>, topk |-> 0, oem_filter |-> Null, rows |-> <<>>, called |-> FALSE]

\* a session whose script is not between the two commits of "Save RCA to DB"
NoPending == [rid |-> -1, items |-> <<>>]

\* no script run has written to a table yet
NoWriter == "nobody"

\* the server before any password is configured and any row is written
AppIdle ==
  /\ UPLOAD_PASSWORD = ""
  /\ upload_ok = [s \in Sessions |-> FALSE]
  /\ unlocked_with = [s \in Sessions |-> ""]
  /\ rcas = <<>>
  /\ actions = <<>>
  /\ evidence = <<>>
  /\ today = 0
  /\ msg = NoMsg
  /\ sims = NoSims
  /\ incidents = <<>>
  /\ pending = [s \in Sessions |-> NoPending]
  /\ writer = NoWriter

NoCall == [fn |-> "none", key |-> <<>>, idx |-> None, text |-> <<>>, flag |-> FALSE]

\* items = doc_text_in_order(doc), the sequence the closures of parse_rca_docx read
Items == doc_text_in_order(doc)

\* up = st.file_uploader(...): a document and its file name
Init ==
  /\ doc \in Docs
  /\ fname = FileName
  /\ parsed = <<>>
  /\ call = NoCall
  /\ AppIdle

\* is_heading(items[k])
IsHeadingCall ==
  /\ parsed = <<>>
  /\ call = NoCall
  /\ \E k \in 1..Len(Items) :
       call' = [fn |-> "is_heading", key |-> Items[k], idx |-> k - 1, text |-> <<>>,
                flag |-> is_heading(Items[k])]
  /\ UNCHANGED <<doc, fname, parsed>>
  /\ UNCHANGED appvars

\* find_heading(key)
FindHeadingCall ==
  /\ parsed = <<>>
  /\ call = NoCall
  /\ \E key \in Keys :
       call' = [fn |-> "find_heading", key |-> key, idx |-> find_heading(Items, key),
                text |-> <<>>, flag |-> FALSE]
  /\ UNCHANGED <<doc, fname, parsed>>
  /\ UNCHANGED appvars

\* section(key)
SectionCall ==
  /\ parsed = <<>>
  /\ call = NoCall
  /\ \E key \in Keys :
       call' = [fn |-> "section", key |-> key, idx |-> find_heading(Items, key),
                text |-> section(Items, key), flag |-> FALSE]
  /\ UNCHANGED <<doc, fname, parsed>>
  /\ UNCHANGED appvars

\* value_after(key)
ValueAfterCall ==
  /\ parsed = <<>>
  /\ call = NoCall
  /\ \E key \in Keys :
       call' = [fn |-> "value_after", key |-> key, idx |-> find_heading(Items, key),
                text |-> value_after(Items, key), flag |-> FALSE]
  /\ UNCHANGED <<doc, fname, parsed>>
  /\ UNCHANGED appvars

\* the return of a closure to parse_rca_docx
Return ==
  /\ call # NoCall
  /\ call' = NoCall
  /\ UNCHANGED <<doc, fname, parsed>>
  /\ UNCHANGED appvars

\* parsed = parse_rca_docx(up), returned once no closure is running
Parse ==
  /\ call = NoCall
  /\ parsed' = <<parse_rca_docx(doc, fname)>>
  /\ UNCHANGED <<doc, fname, call>>
  /\ UNCHANGED appvars

Next ==
  IsHeadingCall \/ FindHeadingCall \/ SectionCall \/ ValueAfterCall \/ Return \/ Parse

Spec == Init /\ [][Next]_vars

(* ----------------------- the tables and the gate ---------------------- *)

\* the tables hold at most so many rows, and date.today() is a day of 0..MaxDay
MaxRcas == 2
MaxActions == 2
MaxEvidence == 1
MaxIncidents == 1
MaxDay == 1

\* (date.today() + timedelta(days=14)), lines 485 and 711
DueOffset == 14

\* the statuses the table actions accepts, and those the update form offers
Statuses == {"To Do", "In Progress", "Evidence Submitted", "Verified", "Closed"}
UpdateStatuses == {"In Progress", "Evidence Submitted", "Verified", "Closed"}
Done == {"Verified", "Closed"}

OwnerTeamDefault == <<"T","e","c","h">>
MethodDefault == <<"E","v","i","d","e","n","c","e"," ","l","i","n","k"," ","+"," ","i","n","d","e","p","e","n","d","e","n","t"," ","v","e","r","i","f","i","c","a","t","i","o","n">>

\* what a script run leaves on its page besides the forms
MsgDisabled == "Upload is currently disabled because UPLOAD_PASSWORD is not set on the server."
MsgIncorrect == "Incorrect password."
MsgOem == "OEM is required."
MsgText == "Action text is required."
MsgMethod == "Verification method is required."
MsgRef == "Evidence reference is required."
MsgIntegrity == "sqlite3.IntegrityError"

\* a gate that lets every session through
upload_authorised_open(s) == TRUE

\* upload_authorised() on a run without a click on "Unlock Upload"
upload_authorised(s) == UPLOAD_PASSWORD # "" /\ upload_ok[s]

\* a gate that takes every submitted password
PasswordAny(pwd) == TRUE

\* if pwd == UPLOAD_PASSWORD
PasswordMatches(pwd) == pwd = UPLOAD_PASSWORD

\* x.strip() or None
OrNone(x) == IF strip(x) # <<>> THEN strip(x) ELSE Null

\* COALESCE(?, column) of a text column, and of a date column
Coalesce(new, old) == IF new # Null THEN new ELSE old
CoalesceDate(new, old) == IF new # None THEN new ELSE old

\* gen_id draws seven random characters; for the table only two outcomes
\* differ: the id is a key already (the INSERT raises IntegrityError), or it is
\* new.  New ids are numbered in the order of insertion.
gen_id(table) == Len(table) + 1

\* the row Save RCA writes to rcas; by is the session that saved it
RcaRow(rid, oem, env, p, created_at, s) ==
  [rca_id |-> rid, oem |-> strip(oem), environment |-> env, title |-> p.title,
   incident_date |-> p.incident_date, services_affected |-> p.services_affected,
   root_cause |-> p.root_cause, workaround |-> p.workaround,
   long_term_solutions |-> p.long_term_solutions, full_text |-> p.full_text,
   created_at |-> created_at, status |-> "Open", by |-> s]

\* a row of actions; admin tells whether a form of the admin tab has written
\* the row, be it "Add action" or "Update"
ActionRow(aid, rid, text, team, person, due, status, method, vby, vat, notes, admin) ==
  [action_id |-> aid, rca_id |-> rid, action_text |-> text, owner_team |-> team,
   owner_person |-> person, due_date |-> due, status |-> status,
   verification_method |-> method, verified_by |-> vby, verified_at |-> vat,
   notes |-> notes, admin |-> admin]

\* the rows of the upload with the last action item left out
upload_rows_short(rid, items, base, day) ==
  [n \in 1..(Len(items) - 1) |->
     ActionRow(base + n, rid, items[n], OwnerTeamDefault, <<>>, day + DueOffset, "To Do",
               MethodDefault, Null, None, Null, FALSE)]

\* rows.append((aid, rid, atext, "Tech", "", today + 14 days, "To Do", ...))
upload_rows(rid, items, base, day) ==
  [n \in 1..Len(items) |->
     ActionRow(base + n, rid, items[n], OwnerTeamDefault, <<>>, day + DueOffset, "To Do",
               MethodDefault, Null, None, Null, FALSE)]

\* the test of line 450 that lets every OEM through
oem_missing_never(oem) == FALSE

\* if not oem.strip()
oem_missing(oem) == strip(oem) = <<>>

\* verified_at that is never stamped
verified_at_never(status) == None

\* date.today().isoformat() if status in ("Verified", "Closed") else None
verified_at_for(status) == IF status \in Done THEN today ELSE None

\* the UPDATE that overwrites verified_at with its parameter
update_row_overwrite(row, new_status, verified_by, notes) ==
  [row EXCEPT !.status = new_status,
              !.verified_by = Coalesce(OrNone(verified_by), row.verified_by),
              !.verified_at = verified_at_for(new_status),
              !.notes = Coalesce(OrNone(notes), row.notes),
              !.admin = TRUE]

\* UPDATE actions SET status=?, verified_by=COALESCE(?, verified_by),
\* verified_at=COALESCE(?, verified_at), notes=COALESCE(?, notes)
update_row(row, new_status, verified_by, notes) ==
  [row EXCEPT !.status = new_status,
              !.verified_by = Coalesce(OrNone(verified_by), row.verified_by),
              !.verified_at = CoalesceDate(verified_at_for(new_status), row.verified_at),
              !.notes = Coalesce(OrNone(notes), row.notes),
              !.admin = TRUE]

\* a selectbox that also offers keys no row of rcas has
RcaIdsStale == 1..MaxRcas

\* the keys of the rows a form offers in its selectbox
RcaIds == {rcas[n].rca_id : n \in 1..Len(rcas)}
ActionIds == {actions[n].action_id : n \in 1..Len(actions)}

\* what every handler leaves alone: the extractor's harness and the server's
\* configuration
Fixed == <<doc, fname, parsed, call, UPLOAD_PASSWORD, today>>

\* a script run of a locked session, with pwd typed and "Unlock Upload" clicked
\* where the form is on the page
Unlock(s, pwd) ==
  /\ ~upload_ok[s]
  /\ IF UPLOAD_PASSWORD = ""
     THEN msg' = MsgDisabled /\ UNCHANGED <<upload_ok, unlocked_with>>
     ELSE IF PasswordMatches(pwd)
     THEN /\ upload_ok' = [upload_ok EXCEPT ![s] = TRUE]
          /\ unlocked_with' = [unlocked_with EXCEPT ![s] = pwd]
          /\ msg' = NoMsg
     ELSE msg' = MsgIncorrect /\ UNCHANGED <<upload_ok, unlocked_with>>
  /\ sims' = NoSims
  /\ UNCHANGED <<rcas, actions, evidence, incidents, pending, writer>>
  /\ UNCHANGED Fixed

\* "Save RCA to DB" with the document d in the uploader
SaveRCA(s, d, oem, env, created_at) ==
  /\ upload_authorised(s)
  /\ Len(rcas) < MaxRcas
  /\ LET p == parse_rca_docx(d, FileName)
         rid == gen_id(rcas)
         rows == upload_rows(rid, p.actions, Len(actions), today)
     IN /\ Len(actions) + Len(p.actions) <= MaxActions
        /\ IF oem_missing(oem)
           THEN msg' = MsgOem /\ UNCHANGED <<rcas, actions>>
           ELSE \/ /\ rcas' = Append(rcas, RcaRow(rid, oem, env, p, created_at, s))
                   /\ actions' = actions \o rows
                   /\ msg' = NoMsg
                \* rid is a key of rcas already: exec_sql raises
                \/ /\ rcas # <<>>
                   /\ msg' = MsgIntegrity
                   /\ UNCHANGED <<rcas, actions>>
                \* an aid is a key of actions already, or drawn twice: the row of
                \* rcas is committed, executemany raises and nothing of it is
                \* committed
                \/ /\ Len(rows) >= 2 \/ (rows # <<>> /\ actions # <<>>)
                   /\ rcas' = Append(rcas, RcaRow(rid, oem, env, p, created_at, s))
                   /\ msg' = MsgIntegrity
                   /\ UNCHANGED actions
  /\ sims' = NoSims
  /\ writer' = IF rcas' # rcas THEN s ELSE writer
  /\ UNCHANGED <<upload_ok, unlocked_with, evidence, incidents, pending>>
  /\ UNCHANGED Fixed

\* "Add action" of the admin tab, the owner and the due date left at their defaults
AddAction(s, rid, action_text, status, verification_method, verified_by, notes) ==
  /\ upload_authorised(s)
  /\ Len(actions) < MaxActions
  /\ rid \in RcaIds
  /\ IF strip(action_text) = <<>>
     THEN msg' = MsgText /\ UNCHANGED actions
     ELSE IF strip(verification_method) = <<>>
     THEN msg' = MsgMethod /\ UNCHANGED actions
     ELSE \/ /\ actions' = Append(actions,
                  ActionRow(gen_id(actions), rid, action_text, OwnerTeamDefault, <<>>,
                            today + DueOffset, status, verification_method,
                            OrNone(verified_by), verified_at_for(status), OrNone(notes),
                            TRUE))
             /\ msg' = NoMsg
          \/ /\ actions # <<>>
             /\ msg' = MsgIntegrity
             /\ UNCHANGED actions
  /\ sims' = NoSims
  /\ writer' = IF actions' # actions THEN s ELSE writer
  /\ UNCHANGED <<upload_ok, unlocked_with, rcas, evidence, incidents, pending>>
  /\ UNCHANGED Fixed

\* "Add evidence" of the admin tab
AddEvidence(s, aid, etype, eref, submitted_by) ==
  /\ upload_authorised(s)
  /\ Len(evidence) < MaxEvidence
  /\ aid \in ActionIds
  /\ IF strip(eref) = <<>>
     THEN msg' = MsgRef /\ UNCHANGED evidence
     ELSE \/ /\ evidence' = Append(evidence,
                  [evidence_id |-> gen_id(evidence), action_id |-> aid,
                   evidence_type |-> etype, evidence_ref |-> eref,
                   submitted_by |-> OrNone(submitted_by), submitted_at |-> today])
             /\ msg' = NoMsg
          \/ /\ evidence # <<>>
             /\ msg' = MsgIntegrity
             /\ UNCHANGED evidence
  /\ sims' = NoSims
  /\ writer' = IF evidence' # evidence THEN s ELSE writer
  /\ UNCHANGED <<upload_ok, unlocked_with, rcas, actions, incidents, pending>>
  /\ UNCHANGED Fixed

\* "Update" of the admin tab
UpdateAction(s, aid, new_status, verified_by, notes) ==
  /\ upload_authorised(s)
  /\ aid \in ActionIds
  /\ actions' = [n \in 1..Len(actions) |->
                   IF actions[n].action_id = aid
                   THEN update_row(actions[n], new_status, verified_by, notes)
                   ELSE actions[n]]
  /\ msg' = NoMsg
  /\ sims' = NoSims
  /\ writer' = s
  /\ UNCHANGED <<upload_ok, unlocked_with, rcas, evidence, incidents, pending>>
  /\ UNCHANGED Fixed

(* ----------------------------- similarity ----------------------------- *)

\* topk=8 of the handler "Find similar RCAs"
TopK == 8

\* sub in t
contains(sub, t) ==
  \E i \in 0..(Len(t) - Len(sub)) : \A n \in 1..Len(sub) : t[i + n] = sub[n]

RECURSIVE CommonLen(_, _, _, _, _, _)
\* the length of the run a[i:] and b[j:] share inside a[:ahi] and b[:bhi]
CommonLen(a, b, i, j, ahi, bhi) ==
  IF i < ahi /\ j < bhi /\ a[i + 1] = b[j + 1]
  THEN 1 + CommonLen(a, b, i + 1, j + 1, ahi, bhi)
  ELSE 0

\* difflib.SequenceMatcher.find_longest_match without junk: the longest block
\* a[i:i+k] = b[j:j+k] inside the two ranges, of those the one earliest in a,
\* of those the one earliest in b; <<alo, blo, 0>> if no character matches
find_longest_match(a, b, alo, ahi, blo, bhi) ==
  LET K == [i \in alo..(ahi - 1), j \in blo..(bhi - 1) |-> CommonLen(a, b, i, j, ahi, bhi)]
      ks == {K[ij] : ij \in DOMAIN K} \cup {0}
      k == CHOOSE m \in ks : \A o \in ks : o <= m
      is == {i \in alo..(ahi - 1) : \E j \in blo..(bhi - 1) : K[i, j] = k}
      i0 == CHOOSE i \in is : \A o \in is : i <= o
      js == {j \in blo..(bhi - 1) : K[i0, j] = k}
      j0 == CHOOSE j \in js : \A o \in js : j <= o
  IN IF k = 0 THEN <<alo, blo, 0>> ELSE <<i0, j0, k>>

RECURSIVE matching_total(_, _, _, _, _, _)
\* sum(triple[-1] for triple in self.get_matching_blocks())
matching_total(a, b, alo, ahi, blo, bhi) ==
  LET m == find_longest_match(a, b, alo, ahi, blo, bhi)
  IN IF m[3] = 0 THEN 0
     ELSE m[3]
          + (IF alo < m[1] /\ blo < m[2]
             THEN matching_total(a, b, alo, m[1], blo, m[2]) ELSE 0)
          + (IF m[1] + m[3] < ahi /\ m[2] + m[3] < bhi
             THEN matching_total(a, b, m[1] + m[3], ahi, m[2] + m[3], bhi) ELSE 0)

\* SequenceMatcher(None, a, b).ratio() = 2.0 * matches / length, or 1.0 for two
\* empty texts, as the fraction <<numerator, denominator>>
ratio(a, b) ==
  IF Len(a) + Len(b) = 0 THEN <<1, 1>>
  ELSE <<2 * matching_total(a, b, 0, Len(a), 0, Len(b)), Len(a) + Len(b)>>

\* x >= y for two of these fractions
RatioGE(x, y) == x[1] * y[2] >= y[1] * x[2]

RECURSIVE InsertDesc(_, _)
\* the place of r in a list sorted by similarity, largest first: behind every
\* row that is not smaller, as the stable list.sort(reverse=True) leaves it
InsertDesc(sorted, r) ==
  IF sorted = <<>> THEN <<r>>
  ELSE IF RatioGE(Head(sorted).similarity, r.similarity)
  THEN <<Head(sorted)>> \o InsertDesc(Tail(sorted), r)
  ELSE <<r>> \o sorted

RECURSIVE SortDesc(_, _, _)
\* scored.sort(key=lambda x: x["similarity"], reverse=True)
SortDesc(rows, n, acc) ==
  IF n > Len(rows) THEN acc ELSE SortDesc(rows, n + 1, InsertDesc(acc, rows[n]))

\* a slice that keeps one row too many
take_one_more(rows, k) == SubSeq(rows, 1, MinOf(k + 1, Len(rows)))

\* scored[:topk], for topk >= 0
take(rows, k) == SubSeq(rows, 1, MinOf(k, Len(rows)))

\* the candidates: all of rcas, or with a filter the rows whose oem contains it
candidates(table, oem_filter) ==
  IF oem_filter # Null /\ oem_filter # <<>>
  THEN SelectSeq(table, LAMBDA r : contains(lower(oem_filter), lower(r.oem)))
  ELSE table

\* combined = f"{title} {root_cause}".strip(), and its score against the query
similarity(query, r) ==
  ratio(lower(query), lower(strip(r.title \o <<" ">> \o r.root_cause)))

\* top_similar_rcas over the rows of rcas in the order the SELECT returns them,
\* taken to be the order of insertion
top_similar_rcas(query, topk, oem_filter) ==
  LET cand == candidates(rcas, oem_filter)
      scored == [n \in 1..Len(cand) |->
                   [rca_id |-> cand[n].rca_id, oem |-> cand[n].oem,
                    environment |-> cand[n].environment, title |-> cand[n].title,
                    root_cause |-> cand[n].root_cause, created_at |-> cand[n].created_at,
                    status |-> cand[n].status, similarity |-> similarity(query, cand[n])]]
  IN take(SortDesc(scored, 1, <<>>), topk)

MsgSummary == "Please enter an incident summary."

\* a call of top_similar_rcas from a page that shows no result yet
TopSimilarCall(query, topk, oem_filter) ==
  /\ sims = NoSims
  /\ sims' = [query |-> query, topk |-> topk, oem_filter |-> oem_filter,
              rows |-> top_similar_rcas(query, topk, oem_filter), called |-> TRUE]
  /\ msg' = NoMsg
  /\ UNCHANGED <<upload_ok, unlocked_with, rcas, actions, evidence, incidents, pending, writer>>
  /\ UNCHANGED Fixed

\* "Find similar RCAs" of the incident tab
FindSimilar(s, inc_oem, inc_env, inc_sev, inc_summary) ==
  /\ upload_authorised(s)
  /\ sims = NoSims
  /\ IF strip(inc_summary) = <<>>
     THEN msg' = MsgSummary /\ UNCHANGED sims
     ELSE /\ sims' = [query |-> inc_oem \o <<" ">> \o inc_env \o <<" ">> \o inc_sev
                                \o <<" ">> \o inc_summary,
                      topk |-> TopK, oem_filter |-> OrNone(inc_oem),
                      rows |-> top_similar_rcas(inc_oem \o <<" ">> \o inc_env \o <<" ">>
                                                \o inc_sev \o <<" ">> \o inc_summary,
                                                TopK, OrNone(inc_oem)),
                      called |-> TRUE]
          /\ msg' = NoMsg
  /\ UNCHANGED <<upload_ok, unlocked_with, rcas, actions, evidence, incidents, pending, writer>>
  /\ UNCHANGED Fixed

(* ------------------- incidents, and statements interleaved ------------ *)

MsgLogged == "Incident logged"

\* inc_oem.strip() or "Unknown"
OemUnknown == <<"U","n","k","n","o","w","n">>
OrUnknown(x) == IF strip(x) # <<>> THEN strip(x) ELSE OemUnknown

\* "Log incident" of the incident tab; the page keeps st.success, no rerun follows
LogIncident(s, inc_oem, inc_env, inc_sev, inc_summary) ==
  /\ upload_authorised(s)
  /\ Len(incidents) < MaxIncidents
  /\ IF strip(inc_summary) = <<>>
     THEN msg' = MsgSummary /\ UNCHANGED incidents
     ELSE \/ /\ incidents' = Append(incidents,
                  [incident_id |-> gen_id(incidents), oem |-> OrUnknown(inc_oem),
                   environment |-> inc_env, system_component |-> <<>>,
                   severity |-> inc_sev, summary |-> inc_summary, created_at |-> today])
             /\ msg' = MsgLogged
          \/ /\ incidents # <<>>
             /\ msg' = MsgIntegrity
             /\ UNCHANGED incidents
  /\ sims' = NoSims
  /\ writer' = IF incidents' # incidents THEN s ELSE writer
  /\ UNCHANGED <<upload_ok, unlocked_with, rcas, actions, evidence, pending>>
  /\ UNCHANGED Fixed

\* the action items of uploads that are committed to rcas and not yet to actions
RECURSIVE Reserved(_)
Reserved(S) ==
  IF S = {} THEN 0
  ELSE LET s == CHOOSE x \in S : TRUE IN Len(pending[s].items) + Reserved(S \ {s})

\* the script of session s is at no statement of "Save RCA to DB"
AtRest(s) == pending[s] = NoPending

\* "Save RCA to DB" up to the commit of exec_sql: the row of rcas is in the
\* table, the rows of actions are not; with no action item the handler ends here
SaveInsertRca(s, d, oem, env, created_at) ==
  /\ upload_authorised(s)
  /\ AtRest(s)
  /\ Len(rcas) < MaxRcas
  /\ LET p == parse_rca_docx(d, FileName)
         rid == gen_id(rcas)
     IN /\ Len(actions) + Reserved(Sessions) + Len(p.actions) <= MaxActions
        /\ IF oem_missing(oem)
           THEN msg' = MsgOem /\ UNCHANGED <<rcas, pending>>
           ELSE \/ /\ rcas' = Append(rcas, RcaRow(rid, oem, env, p, created_at, s))
                   /\ pending' = [pending EXCEPT ![s] = [rid |-> rid, items |-> p.actions]]
                   /\ msg' = NoMsg
                \/ /\ rcas # <<>>
                   /\ msg' = MsgIntegrity
                   /\ UNCHANGED <<rcas, pending>>
  /\ sims' = NoSims
  /\ writer' = IF rcas' # rcas THEN s ELSE writer
  /\ UNCHANGED <<upload_ok, unlocked_with, actions, evidence, incidents>>
  /\ UNCHANGED Fixed

\* the rest of the handler: exec_many commits the rows of actions or raises
SaveInsertActions(s) ==
  /\ ~AtRest(s)
  /\ LET rows == upload_rows(pending[s].rid, pending[s].items, Len(actions), today)
     IN \/ /\ actions' = actions \o rows
           /\ msg' = NoMsg
        \/ /\ Len(rows) >= 2 \/ actions # <<>>
           /\ msg' = MsgIntegrity
           /\ UNCHANGED actions
  /\ pending' = [pending EXCEPT ![s] = NoPending]
  /\ sims' = NoSims
  /\ writer' = IF actions' # actions THEN s ELSE writer
  /\ UNCHANGED <<upload_ok, unlocked_with, rcas, evidence, incidents>>
  /\ UNCHANGED Fixed

(* ------------------------- sessions at work --------------------------- *)

\* three uploads: two action items under a title and a root cause, no
\* fragment long enough for a title, one action item under a heading
DocA == Paras(<<TxtMobile, HEADINGS[6], TxtFix, HEADINGS[9], LineRotate, LinePin>>)
DocB == Paras(<<TxtEight>>)
DocC == Paras(<<HEADINGS[9], LinePin>>)
DbDocs == {DocA, DocB, DocC}

\* the password of the server when one is set, and what users type
PwSet == "secret"
Entered == {"", "guess", PwSet}

OemBlank == <<" ",NBSP>>
OemNissan == <<" ","N","i","s","s","a","n">>
OemAcme == <<"A","C","M","E">>
EnvUAT == <<"U","A","T">>
SevP2 == <<"P","2">>
TxtQA == <<"Q","A"," ">>
TxtNote == <<"o","k">>
TxtRef == <<"h","t","t","p",":","/","/","x">>
EvidenceLink == "Link"
FilterNis == <<"n","i","s">>
QueryMobile == <<"m","o","b","i","l","e"," ","d","a","t","a"," ","f","i","x">>
QueryTerm == <<"l","o","n","g"," ","t","e","r","m">>

\* the server started with or without UPLOAD_PASSWORD, on some day, the
\* tables empty and no session unlocked
InitApp ==
  /\ doc = <<>>
  /\ fname = FileName
  /\ parsed = <<>>
  /\ call = NoCall
  /\ UPLOAD_PASSWORD \in {"", PwSet}
  /\ upload_ok = [s \in Sessions |-> FALSE]
  /\ unlocked_with = [s \in Sessions |-> ""]
  /\ rcas = <<>>
  /\ actions = <<>>
  /\ evidence = <<>>
  /\ today \in 0..MaxDay
  /\ msg = NoMsg
  /\ sims = NoSims
  /\ incidents = <<>>
  /\ pending = [s \in Sessions |-> NoPending]
  /\ writer = NoWriter

\* the upload tab used from two sessions
UnlockUpload == \E s \in Sessions, pwd \in Entered : Unlock(s, pwd)

SaveUpload ==
  \E s \in Sessions, d \in DbDocs, oem \in {<<>>, OemBlank, OemNissan} :
    SaveRCA(s, d, oem, EnvUAT, today)

NextUpload == UnlockUpload \/ SaveUpload

SpecUpload == InitApp /\ [][NextUpload]_vars

\* the server with its password set, on day 0
InitOne == InitApp /\ UPLOAD_PASSWORD = PwSet /\ today = 0

\* one session that saves RCAs with one action item and works in the admin
\* tab; where the admin forms take "verified by" and notes, both are left
\* blank or both filled in, and only one RCA is uploaded
UnlockOne == \E pwd \in Entered : Unlock("s1", pwd)

SaveOne == SaveRCA("s1", DocC, OemNissan, EnvUAT, today)

\* the first upload of the server
SaveFirst == rcas = <<>> /\ SaveOne

Remarks == {<<TxtBlank, <<>>>>, <<TxtQA, TxtNote>>}

AddActionAdmin ==
  \E rid \in RcaIds, status \in Statuses, rem \in Remarks :
    AddAction("s1", rid, TxtFix, status, MethodDefault, rem[1], rem[2])

UpdateAdmin ==
  \E aid \in ActionIds, new_status \in UpdateStatuses, rem \in Remarks :
    UpdateAction("s1", aid, new_status, rem[1], rem[2])

NextAdmin == UnlockOne \/ SaveFirst \/ AddActionAdmin \/ UpdateAdmin

SpecAdmin == InitOne /\ [][NextAdmin]_vars

\* the same session with the evidence form and with required inputs left blank
AddActionAny ==
  \E rid \in RcaIds, action_text \in {TxtBlank, TxtFix}, status \in Statuses,
     verification_method \in {<<>>, MethodDefault} :
    AddAction("s1", rid, action_text, status, verification_method, <<>>, <<>>)

AddEvidenceAdmin ==
  \E aid \in ActionIds, eref \in {<<>>, TxtRef} :
    AddEvidence("s1", aid, EvidenceLink, eref, <<>>)

UpdatePlain ==
  \E aid \in ActionIds, new_status \in UpdateStatuses :
    UpdateAction("s1", aid, new_status, <<>>, <<>>)

NextEvidence == UnlockOne \/ SaveOne \/ AddActionAny \/ AddEvidenceAdmin \/ UpdatePlain

SpecEvidence == InitOne /\ [][NextEvidence]_vars

\* one session that saves RCAs of two OEMs and looks for similar ones
SaveSimilar ==
  \E d \in DbDocs, oem \in {OemNissan, OemAcme} : SaveRCA("s1", d, oem, EnvUAT, today)

TopSimilar ==
  \E query \in {QueryMobile, QueryTerm}, topk \in {1, 2, TopK}, oem_filter \in {Null, FilterNis} :
    TopSimilarCall(query, topk, oem_filter)

FindSimilarRCAs ==
  \E inc_oem \in {<<>>, OemNissan}, inc_summary \in {TxtBlank, QueryMobile} :
    FindSimilar("s1", inc_oem, EnvUAT, SevP2, inc_summary)

NextSimilar == UnlockOne \/ SaveSimilar \/ TopSimilar \/ FindSimilarRCAs

SpecSimilar == InitOne /\ [][NextSimilar]_vars

\* two sessions on one database with its password set, the statements of
\* their script runs interleaved: uploads and the admin forms.  A session
\* clicks nothing while its own script is between the two commits of a save.
UnlockShared == \E s \in Sessions : Unlock(s, PwSet)

SaveRcaShared == \E s \in Sessions : SaveInsertRca(s, DocC, OemNissan, EnvUAT, today)

SaveActionsShared == \E s \in Sessions : SaveInsertActions(s)

AddActionShared ==
  \E s \in Sessions, rid \in RcaIds :
    /\ AtRest(s)
    /\ Len(actions) + Reserved(Sessions) < MaxActions
    /\ AddAction(s, rid, TxtFix, "To Do", MethodDefault, <<>>, <<>>)

AddEvidenceShared ==
  \E s \in Sessions, aid \in ActionIds :
    AtRest(s) /\ AddEvidence(s, aid, EvidenceLink, TxtRef, <<>>)

UpdateShared ==
  \E s \in Sessions, aid \in ActionIds :
    AtRest(s) /\ UpdateAction(s, aid, "Verified", <<>>, <<>>)

NextShared ==
  \/ UnlockShared
  \/ SaveRcaShared
  \/ SaveActionsShared
  \/ AddActionShared
  \/ AddEvidenceShared
  \/ UpdateShared

SpecShared == InitOne /\ [][NextShared]_vars

\* two sessions at the gate of a server with or without a password: whoever
\* gets through uploads one RCA, uses the admin forms and logs incidents
InitGate == InitApp /\ today = 0

UnlockGate == \E s \in Sessions, pwd \in {"guess", PwSet} : Unlock(s, pwd)

SaveGate == \E s \in Sessions : rcas = <<>> /\ SaveRCA(s, DocC, OemNissan, EnvUAT, today)

AddActionGate ==
  \E s \in Sessions, rid \in RcaIds :
    AddAction(s, rid, TxtFix, "To Do", MethodDefault, <<>>, <<>>)

AddEvidenceGate ==
  \E s \in Sessions, aid \in ActionIds : AddEvidence(s, aid, EvidenceLink, TxtRef, <<>>)

UpdateGate ==
  \E s \in Sessions, aid \in ActionIds : UpdateAction(s, aid, "Verified", <<>>, <<>>)

LogIncidentGate ==
  \E s \in Sessions, inc_summary \in {TxtBlank, QueryTerm} :
    LogIncident(s, <<>>, EnvUAT, SevP2, inc_summary)

NextGate ==
  \/ UnlockGate
  \/ SaveGate
  \/ AddActionGate
  \/ AddEvidenceGate
  \/ UpdateGate
  \/ LogIncidentGate

SpecGate == InitGate /\ [][NextGate]_vars

(* ------------------------------ the claims ---------------------------- *)

\* the fragment equals or starts with the key, letter case aside
Matches(frag, key) ==
  LET tl == strip(frag)
  IN /\ Len(tl) >= Len(key)
     /\ \A n \in 1..Len(key) : LowerChar(tl[n]) = LowerChar(key[n])

\* the smallest index after i whose fragment is a recognized heading, or the length
NextRecognized(i) ==
  LET H == {k \in (i + 1)..(Len(Items) - 1) : is_heading(Items[k + 1])}
  IN IF H = {} THEN Len(Items) ELSE CHOOSE k \in H : \A m \in H : k <= m

\* C1: when find_heading finds the key at index i, section(key) is the
\* newline-join of exactly the fragments i+1 .. j-1, j being the next
\* recognized heading after i or the length of the sequence: neither the
\* heading nor any fragment from j on is part of it.
C1_SectionSpan ==
  (call.fn = "section" /\ call.idx # None) =>
     call.text = join_nl(SubSeq(Items, call.idx + 2, NextRecognized(call.idx)))

\* a section with content that another heading ends
C1_Witness ==
  /\ call.fn = "section"
  /\ call.idx # None
  /\ call.text # <<>>
  /\ NextRecognized(call.idx) < Len(Items)

\* C2: a non-empty result of value_after(key) is a fragment strictly between
\* the key's heading and the next recognized heading (or the end): it never
\* comes from behind another heading.
C2_ValueInsideSection ==
  (call.fn = "value_after" /\ call.text # <<>>) =>
     \E k \in (call.idx + 1)..(NextRecognized(call.idx) - 1) :
        strip(Items[k + 1]) = call.text

\* C3: value_after(key) scans the 12 fragments after the heading at i
\* (indices i+1 .. i+12, cut at the end) and returns the first that is
\* non-empty and no recognized heading, the empty text only when none is.
C3_Window12 ==
  (call.fn = "value_after" /\ call.idx # None) =>
     LET W == {k \in (call.idx + 1)..(call.idx + 12) :
                 /\ k < Len(Items)
                 /\ strip(Items[k + 1]) # <<>>
                 /\ ~is_heading(Items[k + 1])}
     IN call.text = IF W = {} THEN <<>>
                    ELSE strip(Items[(CHOOSE k \in W : \A m \in W : k <= m) + 1])

\* C4: every action item has a whitespace-trimmed length above 8; none is
\* empty or whitespace only.
C4_ItemsLong ==
  parsed # <<>> =>
     \A n \in 1..Len(parsed[1].actions) : Len(strip(parsed[1].actions[n])) > 8

\* C5 as stated: the narrative of scenario C gives the items 'Do X.' and
\* 'Create an internal ticket to track closure.'.
C5_ScenarioC_Stated ==
  (parsed # <<>> /\ parsed[1].long_term_solutions = TxtScenarioC) =>
     parsed[1].actions = <<TxtDoX, TxtCreate>>

\* C5, amended: the narrative of scenario C gives the one item 'Create an
\* internal ticket to track closure.'; the 5-character line 'Do X.', the
\* line 'Y' and the empty line are dropped.
C5_ScenarioC ==
  (parsed # <<>> /\ parsed[1].long_term_solutions = TxtScenarioC) =>
     parsed[1].actions = <<TxtCreate>>

\* scenario C has been parsed
C5_Witness == parsed # <<>> /\ parsed[1].long_term_solutions = TxtScenarioC

\* a line with its leading bullet markers and the whitespace at both ends removed
LeadingStripped(ln) ==
  SubSeq(ln, FirstKept(ln, WhiteSpace \cup BulletChars, 1), LastKept(ln, WhiteSpace, Len(ln)))

\* C6: the action items are, in order, the lines of the narrative with only
\* the whitespace at both ends and the leading bullet markers removed, those
\* longer than 8 characters; nothing else is removed from a line, at its end
\* only whitespace.  Stated for the narratives whose whitespace is spaces,
\* tabs and line breaks, where the length test of C4 is not in question.
C6_OnlyLeadingBullets ==
  (parsed # <<>> /\ \A n \in 1..Len(parsed[1].long_term_solutions) :
                      parsed[1].long_term_solutions[n] # NBSP) =>
     LET lines == re_split(parsed[1].long_term_solutions)
         stripped == [n \in 1..Len(lines) |-> LeadingStripped(lines[n])]
     IN parsed[1].actions = SelectSeq(stripped, LAMBDA ln : Len(ln) > 8)

\* no fragment equals or starts with the key
Absent(key) == \A k \in 1..Len(Items) : ~Matches(Items[k], key)

\* C7: when no fragment equals or starts with the key, value_after(key) and
\* section(key) return the empty text; without a 'Services Affected' heading
\* services_affected is empty.
C7_AbsentEmpty ==
  /\ (call.fn \in {"section", "value_after"} /\ Absent(call.key)) => call.text = <<>>
  /\ (parsed # <<>> /\ Absent(HEADINGS[3])) => parsed[1].services_affected = <<>>

\* a helper called for a heading that a non-empty document does not have
C7_Witness ==
  /\ call.fn \in {"section", "value_after"}
  /\ Absent(call.key)
  /\ Len(Items) > 1

\* the fragments among the first 25 with a trimmed length above 8 and below 140
TitleCandidates ==
  {n \in 1..Len(Items) : n <= 25 /\ Len(strip(Items[n])) > 8 /\ Len(strip(Items[n])) < 140}

\* C8: the title is the first of the first 25 fragments with a trimmed length
\* above 8 and below 140, and the file name when there is none, also when a
\* later fragment would do.
C8_Title ==
  parsed # <<>> =>
     parsed[1].title = IF TitleCandidates = {} THEN fname
                       ELSE Items[CHOOSE n \in TitleCandidates : \A m \in TitleCandidates : n <= m]

\* the file name is the title although a fragment behind the first 25 would do
C8_Witness ==
  /\ parsed # <<>>
  /\ parsed[1].title = fname
  /\ \E n \in 26..Len(Items) : Len(Items[n]) > 8 /\ Len(Items[n]) < 140

\* C9: is_heading holds of a fragment exactly when its trimmed, lowercased
\* text equals or starts with the lowercased form of one of the 12 entries
\* of the catalogue.
C9_IsHeading ==
  /\ Len(HEADINGS) = 12
  /\ call.fn = "is_heading" =>
       (call.flag <=> \E n \in 1..12 : Matches(call.key, HEADINGS[n]))

\* a heading recognized by prefix or in another letter case
C9_Witness ==
  /\ call.fn = "is_heading"
  /\ call.flag
  /\ \A n \in 1..Len(HEADINGS) : call.key # HEADINGS[n]

Reverse(s) == [n \in 1..Len(s) |-> s[Len(s) + 1 - n]]

\* the catalogue in other orders: reversed, and with each short label behind
\* its long variant
Reordered ==
  { Reverse(HEADINGS),
    [n \in 1..Len(HEADINGS) |->
       HEADINGS[IF n \in {7, 9} THEN n + 1 ELSE IF n \in {8, 10} THEN n - 1 ELSE n]] }

\* C10: find_heading(key) returns the smallest index whose fragment equals
\* or starts with the key, and None when there is none; no result depends
\* on the order of the catalogue.
C10_FindFirst ==
  /\ call.fn = "find_heading" =>
       LET M == {k \in 0..(Len(Items) - 1) : Matches(Items[k + 1], call.key)}
       IN call.idx = IF M = {} THEN -1 ELSE CHOOSE k \in M : \A m \in M : k <= m
  /\ call.fn = "section" =>
       \A cat \in Reordered : section_in(cat, Items, call.key) = call.text
  /\ call.fn = "value_after" =>
       \A cat \in Reordered : value_after_in(cat, Items, call.key) = call.text
  /\ parsed # <<>> => \A cat \in Reordered : parse_in(cat, doc, fname) = parsed[1]

\* the key is found in a fragment that matches two entries of the catalogue,
\* and a later fragment matches too
C10_Witness ==
  /\ call.fn = "find_heading"
  /\ call.key = HEADINGS[7]
  /\ call.idx # None
  /\ Items[call.idx + 1] = HEADINGS[8]
  /\ \E k \in (call.idx + 2)..Len(Items) : Matches(Items[k], call.key)

\* the places of a document that hold a paragraph: <<b, 0, 0, 0>> for the body
\* paragraph b, <<b, r, c, p>> for paragraph p of cell c of row r of table b
Places(d) ==
  {<<b, 0, 0, 0>> : b \in {n \in 1..Len(d) : d[n].kind = "p"}}
  \cup UNION {UNION {UNION {{<<b, r, c, p>> : p \in 1..Len(d[b].rows[r][c])}
                             : c \in 1..Len(d[b].rows[r])}
                      : r \in 1..Len(d[b].rows)}
              : b \in {n \in 1..Len(d) : d[n].kind = "tbl"}}

\* the text of the paragraph at a place
TextAt(d, pl) ==
  IF d[pl[1]].kind = "p" THEN d[pl[1]].text ELSE d[pl[1]].rows[pl[2]][pl[3]][pl[4]]

\* reading order: block, then row, then cell, then paragraph
Before(a, b) ==
  \/ a[1] < b[1]
  \/ a[1] = b[1] /\ a[2] < b[2]
  \/ a[1] = b[1] /\ a[2] = b[2] /\ a[3] < b[3]
  \/ a[1] = b[1] /\ a[2] = b[2] /\ a[3] = b[3] /\ a[4] < b[4]

\* the places whose text has a character other than white space
Inked(d) == {pl \in Places(d) : \E n \in 1..Len(TextAt(d, pl)) : TextAt(d, pl)[n] \notin WhiteSpace}

\* C11: doc_text_in_order returns exactly the trimmed non-empty texts in
\* reading order: one fragment per paragraph that is not blank, body blocks in
\* document order, a table's rows top to bottom, cells left to right and a
\* cell's paragraphs in order; blank paragraphs and cells give no fragment, no
\* fragment is empty, and two fragments stand in the order of their places.
C11_ReadingOrder ==
  LET ink == Inked(doc)
  IN /\ Len(Items) = Cardinality(ink)
     /\ \A pl \in ink :
          Items[Cardinality({q \in ink : Before(q, pl)}) + 1] = strip(TextAt(doc, pl))
     /\ \A n \in 1..Len(Items) : Items[n] # <<>>

\* a table with a blank paragraph between two texts of one cell has been linearized
C11_Witness ==
  /\ parsed # <<>>
  /\ Len(Items) >= 4
  /\ \E pl \in Places(doc) \ Inked(doc) :
       /\ pl[4] > 1
       /\ \E q \in Inked(doc) : Before(pl, q) /\ q[1] = pl[1] /\ q[2] = pl[2] /\ q[3] = pl[3]
  /\ parsed[1].full_text = join_nl(Items)

\* C12: extraction returns a complete record for every document, and for one
\* without any fragment the title is the file name, the six text fields are
\* empty and there is no action item.
C12_EmptyRecord ==
  parsed # <<>> =>
    /\ DOMAIN parsed[1] = {"title", "incident_date", "services_affected", "root_cause",
                           "workaround", "long_term_solutions", "actions", "full_text"}
    /\ Items = <<>> =>
         /\ parsed[1].title = fname
         /\ parsed[1].incident_date = <<>>
         /\ parsed[1].services_affected = <<>>
         /\ parsed[1].root_cause = <<>>
         /\ parsed[1].workaround = <<>>
         /\ parsed[1].long_term_solutions = <<>>
         /\ parsed[1].full_text = <<>>
         /\ parsed[1].actions = <<>>

\* a document of blank paragraphs and cells only has been parsed
C12_Witness == parsed # <<>> /\ doc # <<>> /\ Items = <<>>

\* the rows of actions the admin tab has not written that belong to RCA rid
UploadedFor(rid) == SelectSeq(actions, LAMBDA a : a.rca_id = rid /\ ~a.admin)

\* C14: a save that ends without a warning or an error appends exactly one row
\* to rcas, with status 'Open' and a new rca_id, and appends one row to actions
\* for each action item of the stored long-term solutions, in their order:
\* the row references the new rca_id and carries the item's text, the owner
\* team "Tech", the due date of today plus 14 days and the status 'To Do'.
\* No other row of the two tables changes.
C14_SaveStores ==
  [][(Len(rcas') > Len(rcas) /\ msg' = NoMsg) =>
       LET r == rcas'[Len(rcas')]
           items == action_items(r.long_term_solutions)
       IN /\ Len(rcas') = Len(rcas) + 1
          /\ SubSeq(rcas', 1, Len(rcas)) = rcas
          /\ r.status = "Open"
          /\ \A n \in 1..Len(rcas) : rcas[n].rca_id # r.rca_id
          /\ Len(actions') = Len(actions) + Len(items)
          /\ SubSeq(actions', 1, Len(actions)) = actions
          /\ \A n \in 1..Len(items) :
               LET a == actions'[Len(actions) + n]
               IN /\ a.rca_id = r.rca_id
                  /\ a.action_text = items[n]
                  /\ a.owner_team = <<"T","e","c","h">>
                  /\ a.due_date = today + 14
                  /\ a.status = "To Do"
                  /\ \A m \in 1..(Len(actions) + n - 1) : actions'[m].action_id # a.action_id]_vars

\* an RCA with two action items has been saved on a day after day 0, and its
\* two rows are the last of actions
C14_Witness ==
  /\ rcas # <<>>
  /\ msg = NoMsg
  /\ today > 0
  /\ Len(UploadedFor(rcas[Len(rcas)].rca_id)) = 2
  /\ Len(action_items(rcas[Len(rcas)].long_term_solutions)) = 2

\* C15: a save attempt that ends with the warning "OEM is required." changes
\* no row of rcas, actions or evidence, and in every state each row of rcas
\* has an oem with a character that is not white space and a title that is
\* not empty.
C15_OemRequired ==
  /\ [](\A n \in 1..Len(rcas) :
          /\ rcas[n].title # <<>>
          /\ \E k \in 1..Len(rcas[n].oem) : rcas[n].oem[k] \notin WhiteSpace)
  /\ [][msg' = "OEM is required." => UNCHANGED <<rcas, actions, evidence>>]_vars

\* after the save of a document whose title is the file name, a second
\* attempt without an OEM shows the warning
C15_Witness ==
  /\ msg = "OEM is required."
  /\ Len(rcas) = 1
  /\ rcas[1].title = FileName

\* C16: a session has upload_ok only if UPLOAD_PASSWORD is set and that very
\* password was submitted in the session; without UPLOAD_PASSWORD no session
\* is ever unlocked, whatever is typed; and every row of rcas was saved by a
\* session that is unlocked.
C16_LockedByDefault ==
  /\ \A s \in Sessions :
       upload_ok[s] => UPLOAD_PASSWORD # "" /\ unlocked_with[s] = UPLOAD_PASSWORD
  /\ \A n \in 1..Len(rcas) : UPLOAD_PASSWORD # "" /\ upload_ok[rcas[n].by]

\* one session has unlocked the upload and saved an RCA; the other has just
\* submitted a wrong password and is still locked
C16_Witness ==
  /\ msg = "Incorrect password."
  /\ rcas # <<>>
  /\ \E s, t \in Sessions : upload_ok[s] /\ ~upload_ok[t]

\* C17: in every state an action whose status is 'Verified' or 'Closed' has
\* at least one row of evidence attached to it.
C17_DoneHasEvidence ==
  \A n \in 1..Len(actions) :
    actions[n].status \in {"Verified", "Closed"} =>
      \E k \in 1..Len(evidence) : evidence[k].action_id = actions[n].action_id

\* the row of rcas has an oem that contains the filter, letter case aside
PassesFilter(r, f) ==
  \E i \in 0..(Len(r.oem) - Len(f)) :
    \A n \in 1..Len(f) : LowerChar(r.oem[i + n]) = LowerChar(f[n])

\* the places in rcas of the candidates of the call shown in sims
CandidatesOf(call_) ==
  {n \in 1..Len(rcas) :
     call_.oem_filter \in {Null, <<>>} \/ PassesFilter(rcas[n], call_.oem_filter)}

\* C18: the result of top_similar_rcas(query, topk, oem_filter) has
\* min(topk, number of candidates) rows, each the row of a different candidate
\* with its similarity to the query, in order of non-increasing similarity; no
\* candidate left out is strictly more similar than a row of the result; with
\* a filter the candidates are the RCAs whose oem contains it, letter case
\* aside; without a candidate the result is empty.
C18_TopK ==
  sims.called =>
    LET cand == CandidatesOf(sims)
        rows == sims.rows
        ids == {rows[i].rca_id : i \in 1..Len(rows)}
        sim == [n \in cand |-> similarity(sims.query, rcas[n])]
    IN /\ Len(rows) = (IF sims.topk <= Cardinality(cand) THEN sims.topk ELSE Cardinality(cand))
       /\ Cardinality(ids) = Len(rows)
       /\ \A i \in 1..Len(rows) :
            \E n \in cand : rcas[n].rca_id = rows[i].rca_id /\ rows[i].similarity = sim[n]
       /\ \A i, j \in 1..Len(rows) :
            i < j => rows[i].similarity[1] * rows[j].similarity[2]
                       >= rows[j].similarity[1] * rows[i].similarity[2]
       /\ \A n \in cand : \A i \in 1..Len(rows) :
            rcas[n].rca_id \notin ids =>
              rows[i].similarity[1] * sim[n][2] >= sim[n][1] * rows[i].similarity[2]
       /\ cand = {} => rows = <<>>

\* of two candidates the second in the table is strictly more similar to the
\* query and topk = 1 returns it alone
C18_Witness ==
  /\ sims.called
  /\ sims.topk = 1
  /\ Len(rcas) = 2
  /\ CandidatesOf(sims) = {1, 2}
  /\ Len(sims.rows) = 1
  /\ sims.rows[1].rca_id = rcas[2].rca_id
  /\ similarity(sims.query, rcas[1]) # similarity(sims.query, rcas[2])

\* C19: in every state an action whose status is 'Verified' or 'Closed' has a
\* verified_at that is not null, and an action the upload created that the
\* admin tab has not updated has status 'To Do' with verified_at and
\* verified_by null.
C19_VerifiedAt ==
  \A n \in 1..Len(actions) :
    /\ actions[n].status \in {"Verified", "Closed"} => actions[n].verified_at # None
    /\ ~actions[n].admin =>
         /\ actions[n].status = "To Do"
         /\ actions[n].verified_at = None
         /\ actions[n].verified_by = Null

\* an uploaded action left alone beside one added as 'Closed', or beside an
\* uploaded one updated to 'Verified'
C19_Witness ==
  \E n, m \in 1..Len(actions) :
    /\ ~actions[n].admin
    /\ actions[m].status \in {"Verified", "Closed"}
    /\ actions[m].verified_at = today
    /\ actions[m].admin

\* the columns Update may not touch are those of the row before
SameOtherColumns(a, b) ==
  /\ a.action_id = b.action_id
  /\ a.rca_id = b.rca_id
  /\ a.action_text = b.action_text
  /\ a.owner_team = b.owner_team
  /\ a.owner_person = b.owner_person
  /\ a.due_date = b.due_date
  /\ a.verification_method = b.verification_method

\* the step is an Update of action aid to new_status with these two inputs,
\* and changes what the claim allows
UpdateFrame(aid, new_status, verified_by, notes) ==
  /\ rcas' = rcas
  /\ evidence' = evidence
  /\ Len(actions') = Len(actions)
  /\ \A n \in 1..Len(actions) :
       IF actions[n].action_id # aid THEN actions'[n] = actions[n]
       ELSE /\ SameOtherColumns(actions'[n], actions[n])
            /\ actions'[n].status = new_status
            /\ actions'[n].verified_by =
                 (IF \A k \in 1..Len(verified_by) : verified_by[k] \in WhiteSpace
                  THEN actions[n].verified_by ELSE strip(verified_by))
            /\ actions'[n].notes =
                 (IF \A k \in 1..Len(notes) : notes[k] \in WhiteSpace
                  THEN actions[n].notes ELSE strip(notes))
            /\ new_status \in {"In Progress", "Evidence Submitted"} =>
                 actions'[n].verified_at = actions[n].verified_at
            /\ new_status \in {"Verified", "Closed"} => actions'[n].verified_at = today

\* C20: an Update changes only status, verified_by, verified_at and notes of
\* the selected action and no other row or column; a blank "verified by" or
\* blank notes keeps the stored value; an update to 'In Progress' or
\* 'Evidence Submitted' keeps verified_at; and no step of any operation turns
\* a verified_at that is set back to null.
C20_UpdateFrame ==
  [][/\ \A aid \in ActionIds, new_status \in UpdateStatuses, rem \in Remarks :
          UpdateAction("s1", aid, new_status, rem[1], rem[2])
            => UpdateFrame(aid, new_status, rem[1], rem[2])
     /\ \A n \in 1..Len(actions) :
          actions[n].verified_at # None =>
            Len(actions') >= n /\ actions'[n].verified_at # None]_vars

\* a verified action with a verifier and a note was moved back to
\* 'In Progress' and kept all three, beside another action
C20_Witness ==
  /\ Len(actions) = 2
  /\ \E n \in 1..Len(actions) :
       /\ actions[n].status = "In Progress"
       /\ actions[n].verified_at # None
       /\ actions[n].verified_by # Null
       /\ actions[n].notes # Null
       /\ ~(\E k \in 1..Len(actions) : actions[k].status \in {"Verified", "Closed"})

\* every row of actions has its rca_id among the keys of rcas, and every row
\* of evidence its action_id among the keys of actions
Referenced ==
  /\ \A n \in 1..Len(actions) : \E m \in 1..Len(rcas) : rcas[m].rca_id = actions[n].rca_id
  /\ \A k \in 1..Len(evidence) :
       \E n \in 1..Len(actions) : actions[n].action_id = evidence[k].action_id

\* a step deletes no row of rcas or actions and rewrites no key of theirs
KeysKept ==
  /\ Len(rcas') >= Len(rcas)
  /\ \A m \in 1..Len(rcas) : rcas'[m].rca_id = rcas[m].rca_id
  /\ Len(actions') >= Len(actions)
  /\ \A n \in 1..Len(actions) :
       actions'[n].action_id = actions[n].action_id /\ actions'[n].rca_id = actions[n].rca_id

\* C21: in every reachable state of two sessions whose statements interleave,
\* each actions row references an rca_id that is a key of rcas and each
\* evidence row an action_id that is a key of actions; and no step deletes a
\* row of rcas or actions or changes a key, which is why a reference once
\* valid stays valid.
C21_ReferentialIntegrity == []Referenced /\ [][KeysKept]_vars

\* both sessions were between the two commits of a save at once and the action
\* rows went in in the other order than the rcas rows; an admin form then added
\* evidence to one of them
C21_Witness ==
  /\ Len(rcas) = 2 /\ rcas[1].by # rcas[2].by
  /\ Len(actions) = 2
  /\ actions[1].rca_id = 2 /\ actions[2].rca_id = 1
  /\ ~actions[1].admin /\ ~actions[2].admin
  /\ evidence # <<>>

\* the upload gate is closed for the session: no password is configured, or
\* the session has not typed it
Locked(s) == UPLOAD_PASSWORD = "" \/ ~upload_ok[s]

Tables == <<rcas, actions, evidence, incidents>>

\* C22: a session that is not upload-authorised is never the session whose
\* script run wrote to rcas, actions, evidence or incidents; while no session
\* is authorised the four tables stay as init_db left them, empty; and every
\* step that changes a table is a run of a session that was authorised before
\* the step.
C22_LockedWritesNothing ==
  /\ [](\A s \in Sessions : Locked(s) => writer # s)
  /\ []((\A s \in Sessions : Locked(s)) => Tables = <<<<>>, <<>>, <<>>, <<>>>>)
  /\ [][Tables' # Tables => writer' \in Sessions /\ ~Locked(writer')]_vars

\* one session has unlocked the upload and logged an incident; the other has
\* just typed a wrong password, stays locked and is not the writer of any row
C22_Witness ==
  /\ upload_ok["s1"] /\ ~upload_ok["s2"]
  /\ incidents # <<>> /\ rcas # <<>>
  /\ writer = "s1"
  /\ \A m \in 1..Len(rcas) : rcas[m].by = "s1"
  /\ msg = MsgIncorrect

====
